---- MODULE Spec2Model ----
(***************************************************************************)
(* tox-docker, tox 3 plugin (tox_docker/tox3/plugin.py).                   *)
(*                                                                         *)
(* The module models the three hooks tox calls on the plugin:              *)
(*   tox_configure      fills the registry CONTAINER_CONFIGS,              *)
(*   tox_runtest_pre    validates, pulls, starts, health-checks, injects,  *)
(*   tox_runtest_post   stops the containers of one test environment.      *)
(* Hooks are synchronous Python calls, so each hook is one action; what a  *)
(* hook did on the way (the engine calls it issued, in order, with the     *)
(* running-container map each start call was handed) is kept in `calls`.   *)
(***************************************************************************)
EXTENDS Naturals, Integers, Sequences, FiniteSets, TLC

\* ---------------------------------------------------------------- bounds
MaxLen == 2      \* longest `docker =` list of a test environment
MaxCalls == 3    \* runtest hook invocations in one behaviour

\* ------------------------------------------------------------- universes
ContainerNames == {"db", "web", "DB"}
VirtualEnvs == {"py", "lint"}
NoContainer == 0          \* "no handle": calls that carry no container
PresetValue == 0          \* a setenv value written in tox.ini, not injected

VARIABLES
  container_config_names, \* result of discover_container_configs(config)
  docker_dont_stop,       \* config.option.docker_dont_stop
  links,                  \* links option of each [docker:NAME] section
  docker,                 \* venv.envconfig.docker of each venv of the session
  CONTAINER_CONFIGS,      \* name -> ContainerConfig
  ENV_CONTAINERS,         \* venv -> ordered dict name -> container
  setenv,                 \* venv.envconfig.setenv of each venv
  configured,             \* tox_configure's outcome: "no" (not called yet),
                          \* "ok", "dont_stop_not_found", "parse_failed"
  started,                \* container id -> [venv, name] of its start call
  stopCount,              \* container id -> number of stop calls it received
  calls,                  \* engine calls and setenv writes of the last hook
  last,                   \* [hook, venv, raised] of the last hook invocation
  ncalls                  \* number of runtest hook invocations so far

vars == <<container_config_names, docker_dont_stop, links, docker,
          CONTAINER_CONFIGS, ENV_CONTAINERS, setenv, configured,
          started, stopCount, calls, last, ncalls>>

inputs == <<container_config_names, docker_dont_stop, links, docker>>

\* ------------------------------------------------------- python builtins
\* dict (insertion ordered) as a sequence of [name, container] items
DictKeys(d) == {d[i].name : i \in 1..Len(d)}

DictIndex(d, k) == CHOOSE i \in 1..Len(d) : d[i].name = k

\* d[k] = v : an existing key keeps its position, a new key goes last
DictSet(d, k, v) ==
  IF k \in DictKeys(d)
  THEN [d EXCEPT ![DictIndex(d, k)] = [name |-> k, container |-> v]]
  ELSE Append(d, [name |-> k, container |-> v])

\* sequences over S of length at most n
SeqsUpTo(S, n) == UNION {[1..k -> S] : k \in 0..n}

\* f with key k bound to v (k may be new)
MapSet(f, k, v) == [x \in DOMAIN f \cup {k} |-> IF x = k THEN v ELSE f[x]]

\* ------------------------------------------------ collaborators (not in
\* tox3/plugin.py): tox_docker.tox3.config and tox_docker.plugin

\* parse_container_config: one immutable spec; a link to a name that is not a
\* known container section is a configuration error
ParseOK(container_name) == links[container_name] \subseteq container_config_names

parse_container_config(container_name) ==
  [name  |-> container_name,
   links |-> links[container_name],
   stop  |-> container_name \notin docker_dont_stop]

\* escape_env_var: non-alphanumerics become "_", the result is upper-cased
escape_env_var(container_name) ==
  CASE container_name = "db"  -> "DB"
    [] container_name = "DB"  -> "DB"
    [] container_name = "web" -> "WEB"

HostVar(container_name) ==
  IF escape_env_var(container_name) = "DB" THEN "DB_HOST" ELSE "WEB_HOST"

\* get_env_vars: NAME_HOST -> the address the engine gave this container
get_env_vars(container_config, container) ==
  [var \in {HostVar(container_config.name)} |-> container]

\* docker_run resolves every link of the spec in the running-container map it
\* is handed; the engine itself may fail as well (engine_ok)
docker_run_ok(container_config, containers, engine_ok) ==
  /\ container_config.links \subseteq DictKeys(containers)
  /\ engine_ok

Call(op, name, container, running, ok, var) ==
  [op |-> op, name |-> name, container |-> container,
   running |-> running, ok |-> ok, var |-> var]

\* ----------------------------------------------------------- tox_configure
EmptyMap == [x \in {} |-> 0]

\* a tox_configure without the loop of lines 41-45
dont_stop_valid_Unchecked == TRUE

\* lines 41-45: every --docker-dont-stop value is a discovered section name
dont_stop_valid == \A container_name \in docker_dont_stop :
                      container_name \in container_config_names

\* the registry after the loop of lines 48-51 has stored the names of S
Registered(S) ==
  [n \in DOMAIN CONTAINER_CONFIGS \cup S |->
     IF n \in S THEN parse_container_config(n) ELSE CONTAINER_CONFIGS[n]]

tox_configure ==
  /\ configured = "no"
  /\ IF ~dont_stop_valid
     THEN /\ configured' = "dont_stop_not_found"  \* ValueError of line 43
          /\ UNCHANGED CONTAINER_CONFIGS
     ELSE IF \A n \in container_config_names : ParseOK(n)
     THEN /\ configured' = "ok"
          /\ CONTAINER_CONFIGS' = Registered(container_config_names)
     ELSE \* parse_container_config raises at the first bad section met; the
          \* sections iterated before it (any order) are already stored
          /\ configured' = "parse_failed"
          /\ \E S \in SUBSET {n \in container_config_names : ParseOK(n)} :
               CONTAINER_CONFIGS' = Registered(S)
  /\ UNCHANGED <<inputs, ENV_CONTAINERS, setenv, started, stopCount,
                 calls, last, ncalls>>

\* --------------------------------------------------------- tox_runtest_pre
\* a validation loop that never records the names it has met
SeenAdd_Forgotten(seen, container_name) == seen

\* seen.add(container_name)
SeenAdd(seen, container_name) == seen \cup {container_name}

\* a validation loop that pulls each image as soon as its name is accepted
append_config_and_pull(st, container_config) ==
  [st EXCEPT !.configs = Append(@, container_config),
             !.calls = Append(@, Call("pull", container_config.name,
                                      NoContainer, {}, TRUE, ""))]

\* env_container_configs.append(CONTAINER_CONFIGS[container_name]): the
\* validation loop collects specs and issues no engine call
append_config(st, container_config) ==
  [st EXCEPT !.configs = Append(@, container_config)]

\* lines 63-70: the validation loop over envconfig.docker
RECURSIVE validate_loop(_, _, _, _)
validate_loop(container_names, i, seen, st) ==
  IF i > Len(container_names) THEN st
  ELSE LET container_name == container_names[i] IN
       IF container_name \notin DOMAIN CONTAINER_CONFIGS
       THEN [st EXCEPT !.raised = "ValueError"]      \* Missing [docker:NAME]
       ELSE IF container_name \in seen
       THEN [st EXCEPT !.raised = "ValueError"]      \* specified more than once
       ELSE validate_loop(container_names, i + 1,
                          SeenAdd(seen, container_name),
                          append_config(st, CONTAINER_CONFIGS[container_name]))

\* a hook that leaves pulling to docker_run
pull_loop_Skipped(configs, i, pullFail, st) == st

\* lines 72-73: docker_pull for every spec; pullFail is the index of the pull
\* the engine fails (0: none), the exception ends the hook
RECURSIVE pull_loop(_, _, _, _)
pull_loop(configs, i, pullFail, st) ==
  IF i > Len(configs) THEN st
  ELSE LET c == Call("pull", configs[i].name, NoContainer, {}, i # pullFail, "")
           st1 == [st EXCEPT !.calls = Append(@, c)]
       IN IF i = pullFail THEN [st1 EXCEPT !.raised = "PullError"]
          ELSE pull_loop(configs, i + 1, pullFail, st1)

\* a start loop that drops the handle docker_run returned
register_Skipped(containers, container_name, container) == containers

\* containers[container_config.name] = container
register(containers, container_name, container) ==
  DictSet(containers, container_name, container)

\* a start loop that swallows a failed docker_run and goes on with the next
RECURSIVE run_loop_KeepGoing(_, _, _, _, _)
run_loop_KeepGoing(venv, configs, i, runFail, st) ==
  IF i > Len(configs) THEN st
  ELSE LET cfg == configs[i]
           ok  == docker_run_ok(cfg, st.containers, i # runFail)
           id  == Len(st.started) + 1
           c   == Call("run", cfg.name, IF ok THEN id ELSE NoContainer,
                       DictKeys(st.containers), ok, "")
           st1 == [st EXCEPT !.calls = Append(@, c)]
       IN IF ~ok THEN run_loop_KeepGoing(venv, configs, i + 1, runFail, st1)
          ELSE run_loop_KeepGoing(venv, configs, i + 1, runFail,
                 [st1 EXCEPT
                    !.containers = register(@, cfg.name, id),
                    !.started = Append(@, [venv |-> venv, name |-> cfg.name]),
                    !.stopCount = Append(@, 0)])

\* lines 78-80: docker_run for every spec, each handed the running-container
\* map as it stands; runFail is the index of the start the engine fails
RECURSIVE run_loop(_, _, _, _, _)
run_loop(venv, configs, i, runFail, st) ==
  IF i > Len(configs) THEN st
  ELSE LET cfg == configs[i]
           ok  == docker_run_ok(cfg, st.containers, i # runFail)
           id  == Len(st.started) + 1
           c   == Call("run", cfg.name, IF ok THEN id ELSE NoContainer,
                       DictKeys(st.containers), ok, "")
           st1 == [st EXCEPT !.calls = Append(@, c)]
       IN IF ~ok THEN [st1 EXCEPT !.raised = "StartError"]
          ELSE run_loop(venv, configs, i + 1, runFail,
                 [st1 EXCEPT
                    !.containers = register(@, cfg.name, id),
                    !.started = Append(@, [venv |-> venv, name |-> cfg.name]),
                    !.stopCount = Append(@, 0)])

RECURSIVE health_loop(_, _, _, _)

\* a handler that swallows HealthCheckFailed and goes on to the next item
on_HealthCheckFailed_Continue(containers, j, healthFail, st) ==
  health_loop(containers, j + 1, healthFail, st)

\* except HealthCheckFailed: break
on_HealthCheckFailed(containers, j, healthFail, st) == st

\* lines 82-88: docker_health_check over containers.items(); healthFail is the
\* index of the item whose check fails (0: none)
health_loop(containers, j, healthFail, st) ==
  IF j > Len(containers) THEN st
  ELSE LET c == Call("health", containers[j].name, containers[j].container,
                     {}, j # healthFail, "")
           st1 == [st EXCEPT !.calls = Append(@, c)]
       IN IF j = healthFail
          THEN on_HealthCheckFailed(containers, j, healthFail, st1)
          ELSE health_loop(containers, j + 1, healthFail, st1)

\* setenv.update(): the injected value replaces whatever was there
update_always(env, var, val) == MapSet(env, var, val)

\* if var not in venv.envconfig.setenv: venv.envconfig.setenv[var] = val
update_if_not_present(env, var, val) ==
  IF var \notin DOMAIN env THEN MapSet(env, var, val) ELSE env

\* lines 95-97 for one container: its variables have distinct names, so the
\* order of get_env_vars(...).items() does not matter
RECURSIVE inject_vars(_, _, _, _)
inject_vars(item, env_vars, todo, st) ==
  IF todo = {} THEN st
  ELSE LET var == CHOOSE v \in todo : TRUE
           new == update_if_not_present(st.setenv, var, env_vars[var])
           st1 == IF new = st.setenv THEN st
                  ELSE [st EXCEPT !.setenv = new,
                          !.calls = Append(@, Call("setenv", item.name,
                                        item.container, {}, TRUE, var))]
       IN inject_vars(item, env_vars, todo \ {var}, st1)

\* lines 90-97: over containers.items()
RECURSIVE inject_loop(_, _, _)
inject_loop(containers, j, st) ==
  IF j > Len(containers) THEN st
  ELSE LET env_vars == get_env_vars(CONTAINER_CONFIGS[containers[j].name],
                                    containers[j].container)
       IN inject_loop(containers, j + 1,
            inject_vars(containers[j], env_vars, DOMAIN env_vars, st))

\* a hook whose start loop stands before its pull loop
runtest_pre_StartBeforePull(venv, pullFail, runFail, healthFail) ==
  LET st0 == [raised |-> "none", configs |-> <<>>, calls |-> <<>>,
              registered |-> FALSE, containers |-> <<>>,
              started |-> started, stopCount |-> stopCount,
              setenv |-> setenv[venv]]
      v == validate_loop(docker[venv], 1, {}, st0)
  IN IF v.raised # "none" THEN v
     ELSE LET s0 == [v EXCEPT !.registered = TRUE,
                       !.containers = IF venv \in DOMAIN ENV_CONTAINERS
                                      THEN ENV_CONTAINERS[venv] ELSE <<>>]
              r == run_loop(venv, v.configs, 1, runFail, s0)
          IN IF r.raised # "none" THEN r
             ELSE LET p == pull_loop(r.configs, 1, pullFail, r) IN
             IF p.raised # "none" THEN p
             ELSE inject_loop(p.containers, 1,
                              health_loop(p.containers, 1, healthFail, p))

\* the whole hook, lines 55-97; `registered` tells whether line 75 was reached
runtest_pre(venv, pullFail, runFail, healthFail) ==
  LET st0 == [raised |-> "none", configs |-> <<>>, calls |-> <<>>,
              registered |-> FALSE, containers |-> <<>>,
              started |-> started, stopCount |-> stopCount,
              setenv |-> setenv[venv]]
      v == validate_loop(docker[venv], 1, {}, st0)
  IN IF v.raised # "none" THEN v
     ELSE LET p == pull_loop(v.configs, 1, pullFail, v) IN
     IF p.raised # "none" THEN p
     ELSE LET s0 == [p EXCEPT !.registered = TRUE,
                       !.containers = IF venv \in DOMAIN ENV_CONTAINERS
                                      THEN ENV_CONTAINERS[venv] ELSE <<>>]
              r == run_loop(venv, p.configs, 1, runFail, s0)
          IN IF r.raised # "none" THEN r
             ELSE inject_loop(r.containers, 1,
                              health_loop(r.containers, 1, healthFail, r))

tox_runtest_pre(venv) ==
  /\ configured = "ok"
  /\ ncalls < MaxCalls
  /\ \E pullFail \in 0..Len(docker[venv]), runFail \in 0..Len(docker[venv]),
        healthFail \in 0..Len(docker[venv]) :
       LET r == runtest_pre(venv, pullFail, runFail, healthFail) IN
       /\ ENV_CONTAINERS' = IF r.registered
                            THEN MapSet(ENV_CONTAINERS, venv, r.containers)
                            ELSE ENV_CONTAINERS
       /\ setenv' = [setenv EXCEPT ![venv] = r.setenv]
       /\ started' = r.started
       /\ stopCount' = r.stopCount
       /\ calls' = r.calls
       /\ last' = [hook |-> "pre", venv |-> venv, raised |-> r.raised]
  /\ ncalls' = ncalls + 1
  /\ UNCHANGED <<inputs, CONTAINER_CONFIGS, configured>>

\* -------------------------------------------------------- tox_runtest_post
\* a stop loop that lets the first failed stop end it
RECURSIVE stop_containers_AbortOnFailure(_, _, _, _)
stop_containers_AbortOnFailure(containers_and_configs, i, stopFails, st) ==
  IF i > Len(containers_and_configs) THEN st
  ELSE LET container_config == containers_and_configs[i][1]
           container == containers_and_configs[i][2]
           st1 == [st EXCEPT
                     !.calls = Append(@, Call("stop", container_config.name,
                                   container, {}, i \notin stopFails, "")),
                     !.stopCount[container] = @ + 1]
       IN IF ~container_config.stop
          THEN stop_containers_AbortOnFailure(containers_and_configs, i + 1,
                                              stopFails, st)
          ELSE IF i \in stopFails THEN st1
          ELSE stop_containers_AbortOnFailure(containers_and_configs, i + 1,
                                              stopFails, st1)

\* stop_containers (tox_docker.plugin): stops every container handed to it
\* whose spec is not excluded by --docker-dont-stop; a failed stop (index in
\* stopFails) is logged and the loop goes on
RECURSIVE stop_containers(_, _, _, _)
stop_containers(containers_and_configs, i, stopFails, st) ==
  IF i > Len(containers_and_configs) THEN st
  ELSE LET container_config == containers_and_configs[i][1]
           container == containers_and_configs[i][2]
       IN IF ~container_config.stop
          THEN stop_containers(containers_and_configs, i + 1, stopFails, st)
          ELSE stop_containers(containers_and_configs, i + 1, stopFails,
                 [st EXCEPT
                    !.calls = Append(@, Call("stop", container_config.name,
                                  container, {}, i \notin stopFails, "")),
                    !.stopCount[container] = @ + 1])

\* a comprehension that pairs every container with the spec of the first one
containers_and_configs_FirstSpec(env_containers) ==
  [i \in 1..Len(env_containers) |->
     <<CONTAINER_CONFIGS[env_containers[1].name], env_containers[i].container>>]

\* lines 103-106
containers_and_configs_of(env_containers) ==
  [i \in 1..Len(env_containers) |->
     <<CONTAINER_CONFIGS[env_containers[i].name], env_containers[i].container>>]

\* a teardown that also drops the specs of the containers it handed to stop
tox_runtest_post_DropsConfigs(venv) ==
  /\ configured = "ok"
  /\ ncalls < MaxCalls
  /\ venv \in DOMAIN ENV_CONTAINERS
  /\ \E stopFails \in SUBSET (1..Len(ENV_CONTAINERS[venv])) :
       LET r == stop_containers(
                  containers_and_configs_of(ENV_CONTAINERS[venv]), 1,
                  stopFails, [calls |-> <<>>, stopCount |-> stopCount])
       IN /\ last' = [hook |-> "post", venv |-> venv, raised |-> "none"]
          /\ calls' = r.calls
          /\ stopCount' = r.stopCount
  /\ CONTAINER_CONFIGS' =
       [n \in DOMAIN CONTAINER_CONFIGS \ DictKeys(ENV_CONTAINERS[venv]) |->
          CONTAINER_CONFIGS[n]]
  /\ ncalls' = ncalls + 1
  /\ UNCHANGED <<inputs, ENV_CONTAINERS, setenv, configured, started>>

\* lines 101-108; ENV_CONTAINERS.get(venv, []) yields a list for a venv that
\* has no entry, and a list has no .items()
tox_runtest_post(venv) ==
  /\ configured = "ok"
  /\ ncalls < MaxCalls
  /\ IF venv \notin DOMAIN ENV_CONTAINERS
     THEN /\ last' = [hook |-> "post", venv |-> venv, raised |-> "AttributeError"]
          /\ calls' = <<>>
          /\ UNCHANGED stopCount
     ELSE \E stopFails \in SUBSET (1..Len(ENV_CONTAINERS[venv])) :
            LET r == stop_containers(
                       containers_and_configs_of(ENV_CONTAINERS[venv]), 1,
                       stopFails, [calls |-> <<>>, stopCount |-> stopCount])
            IN /\ last' = [hook |-> "post", venv |-> venv, raised |-> "none"]
               /\ calls' = r.calls
               /\ stopCount' = r.stopCount
  /\ ncalls' = ncalls + 1
  /\ UNCHANGED <<inputs, CONTAINER_CONFIGS, ENV_CONTAINERS, setenv,
                 configured, started>>

\* ------------------------------------------------------------ the session
NoLinks == [n \in ContainerNames |-> {}]

LinkChoices ==
  {NoLinks,
   [NoLinks EXCEPT !["web"] = {"db"}],
   [NoLinks EXCEPT !["db"] = {"web"}],
   [NoLinks EXCEPT !["web"] = {"db"}, !["db"] = {"web"}],
   [NoLinks EXCEPT !["web"] = {"web"}],
   [NoLinks EXCEPT !["web"] = {"DB"}]}

\* setenv as tox.ini may declare it before any hook runs
SetenvChoices == {EmptyMap, [var \in {"DB_HOST"} |-> PresetValue]}

\* module state at import (lines 24-25), no hook called yet
Fresh ==
  /\ CONTAINER_CONFIGS = EmptyMap
  /\ ENV_CONTAINERS = EmptyMap
  /\ configured = "no"
  /\ started = <<>>
  /\ stopCount = <<>>
  /\ calls = <<>>
  /\ last = [hook |-> "none", venv |-> "none", raised |-> "none"]
  /\ ncalls = 0

\* one test environment, sections among db and web
InitOneEnv ==
  /\ container_config_names \in SUBSET {"db", "web"}
  /\ docker_dont_stop \in SUBSET {"db", "web"}
  /\ links \in LinkChoices
  /\ docker \in [{"py"} -> SeqsUpTo({"db", "web"}, MaxLen)]
  /\ setenv \in [{"py"} -> SetenvChoices]

\* one test environment, two sections whose names escape to the same prefix
InitSameVar ==
  /\ container_config_names = {"db", "DB"}
  /\ docker_dont_stop = {}
  /\ links = NoLinks
  /\ docker \in [{"py"} -> SeqsUpTo({"db", "DB"}, MaxLen)]
  /\ setenv \in [{"py"} -> SetenvChoices]

\* two test environments sharing the sections db and web
InitTwoEnvs ==
  /\ container_config_names = {"db", "web"}
  /\ docker_dont_stop = {}
  /\ links = NoLinks
  /\ docker \in [VirtualEnvs -> SeqsUpTo({"db", "web"}, MaxLen)]
  /\ setenv = [venv \in VirtualEnvs |-> EmptyMap]

Init == Fresh /\ (InitOneEnv \/ InitSameVar \/ InitTwoEnvs)

Next ==
  \/ tox_configure
  \/ \E venv \in DOMAIN docker : tox_runtest_pre(venv)
  \/ \E venv \in DOMAIN docker : tox_runtest_post(venv)

Spec == Init /\ [][Next]_vars

\* ================================================================ claims
CallsOf(op) == {i \in 1..Len(calls) : calls[i].op = op}

EngineCalls == CallsOf("pull") \cup CallsOf("run") \cup CallsOf("health")

Positions(names, n) == {i \in 1..Len(names) : names[i] = n}

\* a list that names an unknown container or names one twice
BadList(names, registry) ==
  \/ \E i \in 1..Len(names) : names[i] \notin registry
  \/ \E i, j \in 1..Len(names) : i # j /\ names[i] = names[j]

\* C1: tox_runtest_pre(E) fails with the configuration error exactly when E's
\* list names a container absent from CONTAINER_CONFIGS or names one twice.
C1_ConfigErrorIff ==
  last.hook = "pre" =>
    (last.raised = "ValueError"
       <=> BadList(docker[last.venv], DOMAIN CONTAINER_CONFIGS))

\* a list of known names with a repetition was rejected
C1_Witness ==
  /\ last.hook = "pre"
  /\ last.raised = "ValueError"
  /\ Len(docker[last.venv]) = 2
  /\ docker[last.venv][1] = docker[last.venv][2]
  /\ docker[last.venv][1] \in DOMAIN CONTAINER_CONFIGS

\* C2: a tox_runtest_pre(E) that fails on an unknown or repeated name has
\* issued no pull, run or health-check call, and leaves ENV_CONTAINERS and
\* every setenv as they were, wherever the offending name stands.
C2_NoEngineCallOnConfigError ==
  [][(ncalls' = ncalls + 1 /\ last'.hook = "pre" /\ last'.raised = "ValueError")
       => /\ \A i \in 1..Len(calls') :
               calls'[i].op \notin {"pull", "run", "health"}
          /\ ENV_CONTAINERS' = ENV_CONTAINERS
          /\ setenv' = setenv]_vars

\* the offending name stood second, behind a valid one
C2_Witness ==
  /\ last.hook = "pre"
  /\ last.raised = "ValueError"
  /\ Len(docker[last.venv]) = 2
  /\ docker[last.venv][1] \in DOMAIN CONTAINER_CONFIGS
  /\ docker[last.venv][2] \notin DOMAIN CONTAINER_CONFIGS
  /\ EngineCalls = {}

C4_MapEmptiedByPost ==
  (last.hook = "post" /\ last.raised = "none") =>
    \A i \in 1..Len(ENV_CONTAINERS[last.venv]) :
      ENV_CONTAINERS[last.venv][i].name \in docker_dont_stop

\* C5 as stated: a failed health check makes tox_runtest_pre end with an
\* error or failed result instead of returning normally.
C5_HealthFailureSurfaces ==
  (last.hook = "pre" /\ \E k \in CallsOf("health") : ~calls[k].ok)
    => last.raised # "none"

\* C6: after a failed health check no later-started container is health
\* checked in that invocation, and every container the invocation started is
\* registered in E's map.
C6_FailFastKeepsRegistered ==
  (last.hook = "pre" /\ \E k \in CallsOf("health") : ~calls[k].ok) =>
    /\ \A k \in CallsOf("health") : ~calls[k].ok =>
         /\ \A k2 \in CallsOf("health") : k2 <= k
         /\ \A r1, r2 \in CallsOf("run") :
              (calls[r1].container = calls[k].container /\ r1 < r2)
                => \A k2 \in CallsOf("health") :
                     calls[k2].container # calls[r2].container
    /\ \A r \in CallsOf("run") :
         /\ calls[r].ok
         /\ \E i \in 1..Len(ENV_CONTAINERS[last.venv]) :
              ENV_CONTAINERS[last.venv][i] =
                [name |-> calls[r].name, container |-> calls[r].container]

\* the first of two started containers failed its check
C6_Witness ==
  /\ last.hook = "pre"
  /\ Cardinality(CallsOf("run")) = 2
  /\ \E k \in CallsOf("health"), r \in CallsOf("run") :
       /\ ~calls[k].ok
       /\ calls[r].container = calls[k].container
       /\ \E r2 \in CallsOf("run") : r < r2

\* C7 as stated: a variable is injected only from a container whose health
\* check was made and passed in this invocation.
C7_InjectOnlyHealthy ==
  last.hook = "pre" =>
    \A s \in CallsOf("setenv") :
      \E k \in CallsOf("health") :
        calls[k].container = calls[s].container /\ calls[k].ok

\* index of the first item of the dict d that exports var
FirstExporter(d, var) ==
  CHOOSE i \in 1..Len(d) :
    /\ var \in DOMAIN get_env_vars(CONTAINER_CONFIGS[d[i].name], d[i].container)
    /\ \A j \in 1..(i - 1) :
         var \notin DOMAIN get_env_vars(CONTAINER_CONFIGS[d[j].name],
                                        d[j].container)

\* C8: tox_runtest_pre(E) changes no variable that setenv already held, and a
\* name exported by several containers gets the value of the first of them.
C8_InjectionNeverOverwrites ==
  [][(ncalls' = ncalls + 1 /\ last'.hook = "pre") =>
       LET E == last'.venv IN
       /\ \A var \in DOMAIN setenv[E] :
            var \in DOMAIN setenv'[E] /\ setenv'[E][var] = setenv[E][var]
       /\ \A var \in DOMAIN setenv'[E] \ DOMAIN setenv[E] :
            LET d == ENV_CONTAINERS'[E]
                i == FirstExporter(d, var)
            IN setenv'[E][var] =
                 get_env_vars(CONTAINER_CONFIGS[d[i].name], d[i].container)[var]]_vars

\* db and DB both export DB_HOST; the first one's value stands
C8_Witness ==
  /\ last.hook = "pre"
  /\ last.raised = "none"
  /\ Len(ENV_CONTAINERS[last.venv]) = 2
  /\ HostVar(ENV_CONTAINERS[last.venv][1].name)
       = HostVar(ENV_CONTAINERS[last.venv][2].name)
  /\ "DB_HOST" \in DOMAIN setenv[last.venv]
  /\ setenv[last.venv]["DB_HOST"] = ENV_CONTAINERS[last.venv][1].container

\* C9 as stated: every started container outside the exclusion set is stopped
\* at most once, and exactly once as soon as its environment's teardown ran.
C9_StoppedExactlyOnce ==
  \A h \in 1..Len(started) :
    started[h].name \notin docker_dont_stop =>
      /\ stopCount[h] <= 1
      /\ (last.hook = "post" /\ last.raised = "none"
            /\ last.venv = started[h].venv) => stopCount[h] = 1

\* C10 as stated: E's map holds exactly the containers whose start succeeded
\* for E, none started for another environment, and E's teardown stops only
\* containers started for E.
C10_MapIsExactlyOwnContainers ==
  /\ \A E \in DOMAIN ENV_CONTAINERS :
       {ENV_CONTAINERS[E][i].container : i \in 1..Len(ENV_CONTAINERS[E])}
         = {h \in 1..Len(started) : started[h].venv = E}
  /\ last.hook = "post" =>
       \A k \in CallsOf("stop") : started[calls[k].container].venv = last.venv

OkRuns == {r \in CallsOf("run") : calls[r].ok}

InMap(venv, name, container) ==
  /\ venv \in DOMAIN ENV_CONTAINERS
  /\ \E i \in 1..Len(ENV_CONTAINERS[venv]) :
       ENV_CONTAINERS[venv][i] = [name |-> name, container |-> container]

\* a tox_runtest_pre whose start loop raised: what the map holds then
StartFailureLeavesStarted ==
  (last.hook = "pre" /\ last.raised = "StartError") =>
    /\ \A r \in OkRuns : InMap(last.venv, calls[r].name, calls[r].container)
    /\ \A r1, r2 \in CallsOf("run") :
         r1 < r2 => calls[r1].name \in calls[r2].running

\* C11 as stated: when the k-th start fails, E's map holds exactly the k-1
\* containers started before it, each registered before the next start call,
\* and a following tox_runtest_post(E) passes all of them to stop.
C11_ExactlyStartedThenAllStopped ==
  [][/\ StartFailureLeavesStarted'
     /\ (last'.hook = "pre" /\ last'.raised = "StartError") =>
          Len(ENV_CONTAINERS'[last'.venv]) = Cardinality(OkRuns')
     /\ (/\ last.hook = "pre" /\ last.raised = "StartError"
         /\ ncalls' = ncalls + 1
         /\ last'.hook = "post" /\ last'.venv = last.venv)
        => \A r \in OkRuns : stopCount'[calls[r].container] >= 1]_vars

\* C11 amended: when the k-th start fails, E's map holds each of the k-1
\* containers started before it in this invocation (entries of an earlier
\* tox_runtest_pre(E) may still be there too), each registered before the next
\* start call, and a following tox_runtest_post(E) passes to stop every one of
\* them whose name is not in the --docker-dont-stop set.
C11_StartedRegisteredThenStopped ==
  [][/\ StartFailureLeavesStarted'
     /\ (/\ last.hook = "pre" /\ last.raised = "StartError"
         /\ ncalls' = ncalls + 1
         /\ last'.hook = "post" /\ last'.venv = last.venv)
        => \A r \in OkRuns :
             calls[r].name \notin docker_dont_stop =>
               \E s \in 1..Len(calls') :
                 /\ calls'[s].op = "stop"
                 /\ calls'[s].container = calls[r].container]_vars

\* the second of two starts failed, and the teardown after it stopped the first
C11_Witness ==
  /\ ncalls = 2
  /\ last.hook = "post" /\ last.raised = "none"
  /\ Len(docker[last.venv]) = 2
  /\ Len(started) = 1
  /\ started[1].venv = last.venv
  /\ stopCount[1] = 1
  /\ CallsOf("stop") # {}

FailedPulls == {k \in CallsOf("pull") : ~calls[k].ok}

\* C12: a tox_runtest_pre(E) in which a pull failed has issued no start call
\* (nor health check) for any container of E, also not for those pulled before
\* the failure, and has registered and injected nothing for E.
C12_PullFailureStartsNothing ==
  [][(ncalls' = ncalls + 1 /\ last'.hook = "pre" /\ FailedPulls' # {}) =>
       /\ last'.raised # "none"
       /\ \A i \in 1..Len(calls') : calls'[i].op = "pull"
       /\ ENV_CONTAINERS' = ENV_CONTAINERS
       /\ setenv' = setenv
       /\ started' = started]_vars

\* the second pull failed after the first had succeeded
C12_Witness ==
  /\ last.hook = "pre"
  /\ last.raised = "PullError"
  /\ \E k1, k2 \in CallsOf("pull") : k1 < k2 /\ calls[k1].ok /\ ~calls[k2].ok
  /\ CallsOf("run") = {}

\* C13: tox_configure fails with the "--docker-dont-stop" not-found error
\* exactly when some entry of the exclusion set is not a discovered container
\* name; with every entry known this validation raises nothing.
C13_DontStopErrorIff ==
  configured # "no" =>
    (configured = "dont_stop_not_found"
       <=> \E x \in docker_dont_stop : x \notin container_config_names)

\* one known and one unknown entry: the unknown one makes configuration fail
C13_Witness ==
  /\ configured = "dont_stop_not_found"
  /\ docker_dont_stop \cap container_config_names # {}
  /\ docker_dont_stop \ container_config_names # {}

StoppedNow(container) ==
  \E s \in CallsOf("stop") : calls[s].container = container

\* C14: teardown of E issues a stop for every container registered for E whose
\* name is not in the exclusion set and none for a container whose name is in
\* it; an excluded container stays registered.
C14_StopsAllButExcluded ==
  (last.hook = "post" /\ last.raised = "none") =>
    LET d == ENV_CONTAINERS[last.venv] IN
    /\ \A i \in 1..Len(d) :
         StoppedNow(d[i].container) <=> d[i].name \notin docker_dont_stop
    /\ \A s \in CallsOf("stop") :
         \E i \in 1..Len(d) : d[i].container = calls[s].container

\* --docker-dont-stop db with db and web running: web stopped, db left
C14_Witness ==
  /\ last.hook = "post" /\ last.raised = "none"
  /\ docker_dont_stop = {"db"}
  /\ DictKeys(ENV_CONTAINERS[last.venv]) = {"db", "web"}
  /\ \A i \in 1..2 :
       StoppedNow(ENV_CONTAINERS[last.venv][i].container)
         <=> ENV_CONTAINERS[last.venv][i].name = "web"

FailedStops == {s \in CallsOf("stop") : ~calls[s].ok}

\* C15: when a stop fails during teardown of E, every other container of E
\* outside the exclusion set still has its stop attempted, and the teardown
\* itself ends without an error.
C15_StopFailureDoesNotEndTeardown ==
  (last.hook = "post" /\ FailedStops # {}) =>
    /\ last.raised = "none"
    /\ \A i \in 1..Len(ENV_CONTAINERS[last.venv]) :
         ENV_CONTAINERS[last.venv][i].name \notin docker_dont_stop
           => StoppedNow(ENV_CONTAINERS[last.venv][i].container)

\* the first stop failed and the second container was stopped all the same
C15_Witness ==
  /\ last.hook = "post"
  /\ \E s1, s2 \in CallsOf("stop") : s1 < s2 /\ ~calls[s1].ok /\ calls[s2].ok

\* the links among the containers of S close a cycle (a self-link included)
Cyclic(S) ==
  \E p \in SeqsUpTo(S, Cardinality(S)) :
    /\ Len(p) >= 1
    /\ \A i \in 1..(Len(p) - 1) : p[i + 1] \in links[p[i]]
    /\ p[1] \in links[p[Len(p)]]

ListNames(venv) == {docker[venv][i] : i \in 1..Len(docker[venv])}

\* C16 as stated: a dependency cycle among the containers of an environment is
\* reported as a configuration error before any start call is issued for it.
C16_CycleRejectedBeforeStart ==
  (last.hook = "pre" /\ Cyclic(ListNames(last.venv))) =>
    /\ last.raised = "ValueError"
    /\ CallsOf("run") = {}

\* C17 as stated: tox_runtest_post(E) for an environment without an entry in
\* ENV_CONTAINERS stops nothing and completes without raising.
C17_PostWithoutEntryIsNoop ==
  (last.hook = "post" /\ last.venv \notin DOMAIN ENV_CONTAINERS) =>
    /\ last.raised = "none"
    /\ CallsOf("stop") = {}

Phase(op) ==
  CASE op = "pull"   -> 1
    [] op = "run"    -> 2
    [] op = "health" -> 3
    [] op = "setenv" -> 4
    [] op = "stop"   -> 5

\* C18: within one tox_runtest_pre(E) every pull precedes the first start,
\* every start the first health check, every health check the first injected
\* variable, and no stop is issued; a start follows the pull of every image of
\* E, a health check follows the start of the container it checks.
C18_PhasesInOrder ==
  last.hook = "pre" =>
    /\ \A i, j \in 1..Len(calls) :
         i < j => Phase(calls[i].op) <= Phase(calls[j].op)
    /\ CallsOf("stop") = {}
    /\ CallsOf("run") # {} =>
         \A n \in ListNames(last.venv) :
           \E p \in CallsOf("pull") : calls[p].name = n /\ calls[p].ok
    /\ \A r \in CallsOf("run") :
         \E p \in CallsOf("pull") :
           p < r /\ calls[p].name = calls[r].name /\ calls[p].ok
    /\ CallsOf("health") # {} =>
         \A n \in ListNames(last.venv) :
           \E r \in OkRuns : calls[r].name = n
    /\ \A h \in CallsOf("health") :
         \E r \in OkRuns :
           r < h /\ calls[r].container = calls[h].container

\* two containers went through pull, start, health check and injection
C18_Witness ==
  /\ last.hook = "pre"
  /\ last.raised = "none"
  /\ Cardinality(CallsOf("pull")) = 2
  /\ Cardinality(CallsOf("run")) = 2
  /\ Cardinality(CallsOf("health")) = 2
  /\ Cardinality(CallsOf("setenv")) = 2

FailedRuns == {r \in CallsOf("run") : ~calls[r].ok}

\* C19: a tox_runtest_pre(E) in which a start failed issues nothing after the
\* failed start call (no start, no health check, no injection), and leaves the
\* running-container map and the setenv of every other environment as they
\* were.
C19_StartFailureEndsHookOnly ==
  [][(ncalls' = ncalls + 1 /\ last'.hook = "pre" /\ FailedRuns' # {}) =>
       /\ last'.raised # "none"
       /\ FailedRuns' = {Len(calls')}
       /\ \A i \in 1..Len(calls') : calls'[i].op \in {"pull", "run"}
       /\ setenv'[last'.venv] = setenv[last'.venv]
       /\ \A E \in DOMAIN docker \ {last'.venv} :
            /\ setenv'[E] = setenv[E]
            /\ E \in DOMAIN ENV_CONTAINERS' <=> E \in DOMAIN ENV_CONTAINERS
            /\ E \in DOMAIN ENV_CONTAINERS =>
                 ENV_CONTAINERS'[E] = ENV_CONTAINERS[E]]_vars

\* a start failed for one environment while another had containers running
C19_Witness ==
  /\ last.hook = "pre"
  /\ last.raised = "StartError"
  /\ \E E \in DOMAIN ENV_CONTAINERS :
       E # last.venv /\ Len(ENV_CONTAINERS[E]) >= 1

\* C20: no tox_runtest_pre or tox_runtest_post invocation, whether it returns
\* or raises, adds, removes or replaces an entry of CONTAINER_CONFIGS; only
\* tox_configure writes the registry.
C20_RegistryWrittenOnlyByConfigure ==
  [][/\ ncalls' # ncalls => CONTAINER_CONFIGS' = CONTAINER_CONFIGS
     /\ CONTAINER_CONFIGS' # CONTAINER_CONFIGS =>
          (configured = "no" /\ configured' # "no")]_vars

\* hooks have run, one of them raising, and the registry is as configured
C20_Witness ==
  /\ ncalls >= 2
  /\ last.raised # "none"
  /\ started # <<>>
  /\ container_config_names # {}
  /\ DOMAIN CONTAINER_CONFIGS = container_config_names

====
